---- MODULE Spec2Model ----
(***************************************************************************)
(* docs/conf.py of herkos: the Sphinx build configuration.                 *)
(*                                                                         *)
(* The file is a Python module body of eleven assignment statements, each  *)
(* binding a name to a literal.  The host tool reads the configuration by  *)
(* executing the module body, top to bottom, in a fresh namespace; the     *)
(* namespace left when the last statement has run is the Build             *)
(* Configuration record.  Several reads (one per start of the tool) are    *)
(* modelled side by side, so that their statements interleave.             *)
(*                                                                         *)
(* Representation of Python values:                                        *)
(*   - a str that names an identifier or is free text is a TLA+ string;    *)
(*   - a str that is a path or a glob pattern is the sequence of its       *)
(*     characters, so that predicates on paths can inspect them;           *)
(*   - a list is a sequence.                                               *)
(***************************************************************************)
EXTENDS Naturals, Sequences, FiniteSets, TLC

\* Number of reads of the configuration modelled side by side.
MaxReads == 3

Reads == 1..MaxReads

VARIABLES
    pc,      \* pc[r]: position of the next statement of conf.py in read r
    ns,      \* ns[r]: the namespace of read r (name -> value)
    raised,  \* raised[r]: an exception left the module body in read r
    host,    \* host[r]: what the host tool made of the record of read r
    env      \* the installation the host tool runs in

vars == <<pc, ns, raised, host, env>>

-----------------------------------------------------------------------------
(* The literals of conf.py, under the names conf.py binds them to.         *)

project == "herkos"

copyright == "2026, Arnaud Riess"

author == "Arnaud Riess"

\* Faulty variant: the version string depends on how many reads came before.
release_counted(n) == IF n = 0 THEN "0.1.0" ELSE "0.1.1"

release == "0.1.0"

\* Faulty variant: the two extensions in the other order.
extensions_swapped == <<"sphinx_needs", "myst_parser">>

\* Faulty variant: the Markdown parser is not enabled.
extensions_no_myst == <<"sphinx_needs">>

extensions == <<"myst_parser", "sphinx_needs">>

myst_enable_extensions == <<"colon_fence">>

templates_path == << <<"_", "t", "e", "m", "p", "l", "a", "t", "e", "s">> >>

\* Faulty variant: a pattern repeated in place of another.
exclude_patterns_dup ==
    << <<"_", "b", "u", "i", "l", "d">>,
       <<"T", "h", "u", "m", "b", "s", ".", "d", "b">>,
       <<"T", "h", "u", "m", "b", "s", ".", "d", "b">> >>

exclude_patterns ==
    << <<"_", "b", "u", "i", "l", "d">>,
       <<"T", "h", "u", "m", "b", "s", ".", "d", "b">>,
       <<".", "D", "S", "_", "S", "t", "o", "r", "e">> >>

\* Faulty variant: the settings file is looked for one directory up.
needs_from_toml_parent ==
    <<".", ".", "/", "u", "b", "p", "r", "o", "j", "e", "c", "t", ".", "t", "o", "m", "l">>

needs_from_toml ==
    <<"u", "b", "p", "r", "o", "j", "e", "c", "t", ".", "t", "o", "m", "l">>

\* Faulty variant: another theme.
html_theme_classic == "classic"

html_theme == "alabaster"

\* Faulty variant: an absolute static path.
html_static_path_abs == << <<"/", "_", "s", "t", "a", "t", "i", "c">> >>

html_static_path == << <<"_", "s", "t", "a", "t", "i", "c">> >>

\* The names conf.py binds, in the order of its statements.
Statements ==
    <<"project", "copyright", "author", "release", "extensions",
      "myst_enable_extensions", "templates_path", "exclude_patterns",
      "needs_from_toml", "html_theme", "html_static_path">>

\* The position in conf.py of the statement that binds name k.
Pos(k) == CHOOSE i \in 1..Len(Statements) : Statements[i] = k

\* The position after the last statement: the module body has run.
End == Len(Statements) + 1

Loaded(r) == pc[r] = End

\* The namespace a read starts with holds none of the option keys.
EmptyNamespace == << >>

\* Python's name binding: k is bound to v, whatever k was bound to before.
Assign(n, k, v) == (k :> v) @@ n

-----------------------------------------------------------------------------
(* The installation of the host tool: which extensions and themes it can   *)
(* locate and which files next to conf.py it can read.                     *)

HostExtensions == {"myst_parser", "sphinx_needs"}

HostThemes == {"alabaster"}

HostFiles == {<<"u", "b", "p", "r", "o", "j", "e", "c", "t", ".", "t", "o", "m", "l">>}

Environments ==
    [exts : SUBSET HostExtensions, themes : SUBSET HostThemes, files : SUBSET HostFiles]

Init ==
    /\ pc = [r \in Reads |-> 1]
    /\ ns = [r \in Reads |-> EmptyNamespace]
    /\ raised = [r \in Reads |-> FALSE]
    /\ host = [r \in Reads |-> "idle"]
    /\ env \in Environments

-----------------------------------------------------------------------------
(* One step of a read: the statement of conf.py that binds k runs.         *)

Bind(r, k, v) ==
    /\ pc[r] = Pos(k)
    /\ ~raised[r]
    /\ ns' = [ns EXCEPT ![r] = Assign(@, k, v)]
    /\ pc' = [pc EXCEPT ![r] = Pos(k) + 1]
    /\ UNCHANGED <<raised, host, env>>

\* A statement that raises instead of binding: the read ends where it stands.
\* No statement of conf.py does this (each binds a literal); raised stays
\* FALSE in Spec.
Raise(r, k) ==
    /\ pc[r] = Pos(k)
    /\ ~raised[r]
    /\ raised' = [raised EXCEPT ![r] = TRUE]
    /\ UNCHANGED <<pc, ns, host, env>>

Assign_project(r) == Bind(r, "project", project)

Assign_copyright(r) == Bind(r, "copyright", copyright)

\* Faulty variant: the name on the left-hand side is misspelt.
Assign_author_misspelt(r) ==
    /\ pc[r] = Pos("author")
    /\ ~raised[r]
    /\ ns' = [ns EXCEPT ![r] = Assign(@, "authors", author)]
    /\ pc' = [pc EXCEPT ![r] = Pos("author") + 1]
    /\ UNCHANGED <<raised, host, env>>

Assign_author(r) == Bind(r, "author", author)

\* Faulty variant: the value is computed from state shared between reads.
Assign_release_counted(r) ==
    Bind(r, "release",
         release_counted(Cardinality({q \in Reads : pc[q] > Pos("release")})))

Assign_release(r) == Bind(r, "release", release)

Assign_extensions(r) == Bind(r, "extensions", extensions)

Assign_myst_enable_extensions(r) ==
    Bind(r, "myst_enable_extensions", myst_enable_extensions)

Assign_templates_path(r) == Bind(r, "templates_path", templates_path)

Assign_exclude_patterns(r) == Bind(r, "exclude_patterns", exclude_patterns)

Assign_needs_from_toml(r) == Bind(r, "needs_from_toml", needs_from_toml)

\* Faulty variant: the statement looks the theme up and raises if it is missing.
Assign_html_theme_validating(r) ==
    IF html_theme \in env.themes
        THEN Bind(r, "html_theme", html_theme)
        ELSE Raise(r, "html_theme")

Assign_html_theme(r) == Bind(r, "html_theme", html_theme)

\* Faulty variant: the statement rebinds a name bound earlier.
Assign_html_static_path_rebinding(r) ==
    /\ pc[r] = Pos("html_static_path")
    /\ ~raised[r]
    /\ ns' = [ns EXCEPT ![r] = Assign(@, "templates_path", html_static_path)]
    /\ pc' = [pc EXCEPT ![r] = Pos("html_static_path") + 1]
    /\ UNCHANGED <<raised, host, env>>

Assign_html_static_path(r) == Bind(r, "html_static_path", html_static_path)

\* The module body of conf.py: whichever statement read r stands at.
Exec(r) ==
    \/ Assign_project(r)
    \/ Assign_copyright(r)
    \/ Assign_author(r)
    \/ Assign_release(r)
    \/ Assign_extensions(r)
    \/ Assign_myst_enable_extensions(r)
    \/ Assign_templates_path(r)
    \/ Assign_exclude_patterns(r)
    \/ Assign_needs_from_toml(r)
    \/ Assign_html_theme(r)
    \/ Assign_html_static_path(r)

\* The host tool takes the record of read r and resolves what it names:
\* the extensions, the theme, and the file the traceability extension loads.
HostCheck(r) ==
    /\ Loaded(r)
    /\ ~raised[r]
    /\ host[r] = "idle"
    /\ host' = [host EXCEPT ![r] =
                   IF /\ \A i \in 1..Len(ns[r].extensions) :
                            ns[r].extensions[i] \in env.exts
                      /\ ns[r].html_theme \in env.themes
                      /\ ns[r].needs_from_toml \in env.files
                       THEN "built"
                       ELSE "error"]
    /\ UNCHANGED <<pc, ns, raised, env>>

Next == \E r \in Reads : Exec(r) \/ HostCheck(r)

Spec == Init /\ [][Next]_vars

TypeOK ==
    /\ pc \in [Reads -> 1..End]
    /\ raised \in [Reads -> BOOLEAN]
    /\ host \in [Reads -> {"idle", "built", "error"}]
    /\ env \in Environments
    /\ \A r \in Reads :
          DOMAIN ns[r] = {Statements[i] : i \in 1..(pc[r] - 1)}

-----------------------------------------------------------------------------
(* Predicates on values, used to state the properties below.               *)

Range(s) == {s[i] : i \in 1..Len(s)}

NoDuplicates(s) == \A i, j \in 1..Len(s) : i # j => s[i] # s[j]

\* Paths are sequences of characters; "/" separates components.
IsAbsolute(p) == Len(p) > 0 /\ p[1] = "/"

Slashes(p) == {i \in 1..Len(p) : p[i] = "/"}

RECURSIVE Components(_)
Components(p) ==
    IF Slashes(p) = {}
        THEN <<p>>
        ELSE LET i == CHOOSE i \in Slashes(p) : \A j \in Slashes(p) : i <= j
             IN  <<SubSeq(p, 1, i - 1)>> \o Components(SubSeq(p, i + 1, Len(p)))

HasParentComponent(p) == <<".", ".">> \in Range(Components(p))

\* A path resolved against a directory: an absolute path stands for itself.
Resolve(dir, p) == IF IsAbsolute(p) THEN p ELSE dir \o <<"/">> \o p

LastSlash(p) == CHOOSE i \in Slashes(p) : \A j \in Slashes(p) : j <= i

Dirname(p) == IF Slashes(p) = {} THEN << >> ELSE SubSeq(p, 1, LastSlash(p) - 1)

Basename(p) == IF Slashes(p) = {} THEN p ELSE SubSeq(p, LastSlash(p) + 1, Len(p))

\* Directories conf.py may lie in: a relative one and an absolute one.
ConfDirs ==
    { <<"d", "o", "c", "s">>,
      <<"/", "r", "e", "p", "o", "/", "d", "o", "c", "s">> }

\* Every path-valued entry of the record of read r.
PathsOf(r) ==
    Range(ns[r].templates_path) \cup Range(ns[r].html_static_path)
        \cup Range(ns[r].exclude_patterns) \cup {ns[r].needs_from_toml}

-----------------------------------------------------------------------------
(* Properties.                                                             *)

\* C1: in the record of every completed read, the enabled-extensions list
\* is exactly <<"myst_parser", "sphinx_needs">>: length 2, myst_parser
\* first, sphinx_needs second, nothing else.
C1_ExtensionsExact ==
    \A r \in Reads :
        Loaded(r) =>
            /\ ns[r].extensions = <<"myst_parser", "sphinx_needs">>
            /\ Len(ns[r].extensions) = 2
            /\ ns[r].extensions[1] = "myst_parser"
            /\ ns[r].extensions[2] = "sphinx_needs"
            /\ Range(ns[r].extensions) = {"myst_parser", "sphinx_needs"}

\* A read has completed and the host tool has resolved its extension list.
C1_Witness ==
    \E r \in Reads :
        /\ Loaded(r)
        /\ host[r] # "idle"
        /\ Len(ns[r].extensions) = 2

\* C2: any two completed reads hold the same record, whatever ran between
\* them: the same keys, and under every key the same value.
C2_ReadsAgree ==
    \A r1, r2 \in Reads :
        (Loaded(r1) /\ Loaded(r2)) =>
            /\ DOMAIN ns[r1] = DOMAIN ns[r2]
            /\ \A k \in DOMAIN ns[r1] : ns[r1][k] = ns[r2][k]
            /\ ns[r1] = ns[r2]

\* Two reads have completed while a third read was under way between them.
C2_Witness ==
    \E r1, r2, r3 \in Reads :
        /\ r1 # r2 /\ r1 # r3 /\ r2 # r3
        /\ Loaded(r1) /\ Loaded(r2)
        /\ pc[r3] > 1

\* C3: the exclude patterns of a completed read are exactly the set
\* {"_build", "Thumbs.db", ".DS_Store"}: three patterns, pairwise distinct.
C3_ExcludePatternsExact ==
    \A r \in Reads :
        Loaded(r) =>
            /\ Range(ns[r].exclude_patterns) =
                   { <<"_", "b", "u", "i", "l", "d">>,
                     <<"T", "h", "u", "m", "b", "s", ".", "d", "b">>,
                     <<".", "D", "S", "_", "S", "t", "o", "r", "e">> }
            /\ Cardinality(Range(ns[r].exclude_patterns)) = 3
            /\ Len(ns[r].exclude_patterns) = 3
            /\ NoDuplicates(ns[r].exclude_patterns)

\* A completed read whose record lists exclude patterns.
C3_Witness ==
    \E r \in Reads :
        /\ Loaded(r)
        /\ Len(ns[r].exclude_patterns) > 0

\* C4: the external settings reference of a completed read is the bare
\* file name "ubproject.toml": it has no directory component, and resolved
\* against the directory of conf.py it names ubproject.toml in that directory.
C4_SettingsReference ==
    \A r \in Reads :
        Loaded(r) =>
            LET p == ns[r].needs_from_toml
                name == <<"u", "b", "p", "r", "o", "j", "e", "c", "t",
                          ".", "t", "o", "m", "l">>
            IN  /\ p = name
                /\ Slashes(p) = {}
                /\ ~IsAbsolute(p)
                /\ \A d \in ConfDirs :
                      /\ Dirname(Resolve(d, p)) = d
                      /\ Basename(Resolve(d, p)) = name

\* A completed read whose settings reference the host tool found readable.
C4_Witness ==
    \E r \in Reads :
        /\ Loaded(r)
        /\ host[r] # "idle"
        /\ ns[r].needs_from_toml \in env.files

\* C5: in the record of every completed read the theme name is
\* "alabaster" and the release version is "0.1.0".
C5_ThemeAndRelease ==
    \A r \in Reads :
        Loaded(r) =>
            /\ ns[r].html_theme = "alabaster"
            /\ ns[r].release = "0.1.0"

\* The host tool has built from a record whose theme it located.
C5_Witness ==
    \E r \in Reads :
        /\ Loaded(r)
        /\ host[r] = "built"
        /\ ns[r].html_theme \in env.themes

\* C6: the keys a completed read defines are exactly the eleven fields of
\* the data model: each is defined and no other key is.
C6_ElevenKeys ==
    \A r \in Reads :
        Loaded(r) =>
            /\ DOMAIN ns[r] =
                   {"project", "copyright", "author", "release", "extensions",
                    "myst_enable_extensions", "templates_path",
                    "exclude_patterns", "needs_from_toml", "html_theme",
                    "html_static_path"}
            /\ Cardinality(DOMAIN ns[r]) = 11

\* A completed read, reached through all of its statements.
C6_Witness ==
    \E r \in Reads :
        /\ Loaded(r)
        /\ "project" \in DOMAIN ns[r]
        /\ "html_static_path" \in DOMAIN ns[r]

\* C7: the record is immutable.  No step changes the value of a key once
\* it is bound, and once a read is complete it stays complete with its
\* record unchanged, whatever else runs.
C7_Immutable ==
    [][\A r \in Reads :
          /\ \A k \in DOMAIN ns[r] :
                k \in DOMAIN ns'[r] /\ ns'[r][k] = ns[r][k]
          /\ Loaded(r) => (pc'[r] = pc[r] /\ ns'[r] = ns[r])]_vars

\* A record is complete and in use by the host tool while another read has
\* taken steps of its own.
C7_Witness ==
    \E r, q \in Reads :
        /\ r # q
        /\ Loaded(r)
        /\ host[r] # "idle"
        /\ pc[q] > 1
        /\ ~Loaded(q)

\* C8: no error originates in the load.  No read ever raises; a read that
\* is not complete can always run its next statement, whatever the host's
\* installation lacks; and when the host tool reports an error, the read is
\* complete and holds the full record.
C8_NoErrorInLoad ==
    \A r \in Reads :
        /\ ~raised[r]
        /\ (~Loaded(r)) => ENABLED Exec(r)
        /\ (host[r] = "error") =>
              /\ Loaded(r)
              /\ DOMAIN ns[r] = Range(Statements)

\* The installation knows no extension, no theme and no settings file; the
\* read is complete and the host tool has reported the error.
C8_Witness ==
    \E r \in Reads :
        /\ env.exts = {} /\ env.themes = {} /\ env.files = {}
        /\ Loaded(r)
        /\ host[r] = "error"

\* C9: in a completed read the Markdown sub-extensions are exactly
\* <<"colon_fence">> and "myst_parser" is enabled; the external settings
\* reference is set and "sphinx_needs" is enabled; and no extension
\* identifier is listed twice.
C9_PluginSettingsEnabled ==
    \A r \in Reads :
        Loaded(r) =>
            /\ ns[r].myst_enable_extensions = <<"colon_fence">>
            /\ (Len(ns[r].myst_enable_extensions) > 0 =>
                    "myst_parser" \in Range(ns[r].extensions))
            /\ ("needs_from_toml" \in DOMAIN ns[r] =>
                    "sphinx_needs" \in Range(ns[r].extensions))
            /\ NoDuplicates(ns[r].extensions)

\* A completed read that sets both plugin-specific settings.
C9_Witness ==
    \E r \in Reads :
        /\ Loaded(r)
        /\ Len(ns[r].myst_enable_extensions) > 0
        /\ "needs_from_toml" \in DOMAIN ns[r]

\* C10: in a completed read the project name is "herkos" (not empty), the
\* template search paths are exactly <<"_templates">>, the static asset
\* paths are exactly <<"_static">>, and no template path, static path,
\* exclude pattern or settings reference is absolute or has a ".." component.
C10_RelativePaths ==
    \A r \in Reads :
        Loaded(r) =>
            /\ ns[r].project = "herkos"
            /\ ns[r].project # ""
            /\ ns[r].templates_path =
                   << <<"_", "t", "e", "m", "p", "l", "a", "t", "e", "s">> >>
            /\ ns[r].html_static_path =
                   << <<"_", "s", "t", "a", "t", "i", "c">> >>
            /\ \A p \in PathsOf(r) :
                  ~IsAbsolute(p) /\ ~HasParentComponent(p)

\* A completed read whose record holds all six path-valued entries.
C10_Witness ==
    \E r \in Reads :
        /\ Loaded(r)
        /\ Cardinality(PathsOf(r)) = 6

====
